---- MODULE Spec2Model ----
(***************************************************************************)
(* dimod::AdjMapBQM<V, B> (dimod/include/dimod/adjmapbqm.h): a binary      *)
(* quadratic model stored as a vector `adj` of (neighbour map, linear      *)
(* bias) pairs.  Variable v of the C++ code is element v+1 of the TLA+     *)
(* sequence; a std::map<V, B> is a function from its key set to biases.    *)
(***************************************************************************)
EXTENDS Integers, Sequences, FiniteSets, TLC

VARIABLES adj,   \* std::vector<std::pair<std::map<V, B>, B>> adj
          pre,   \* history: the value of adj when the last call began
          last,  \* history: the last call, its arguments and what it returned
          src    \* the BQM handed to the converting constructor (NoSource if none)

vars == <<adj, pre, last, src>>

\* Largest number of variables a store grows to.
MaxVars == 3
\* Largest number of interactions a store grows to.
MaxInteractions == 2
\* Largest number of variables of a conversion source.
MaxSrcVars == 2
\* bias_type values the calls draw from: the default-constructed bias 0 and
\* one other value (the code never computes with a bias, it only stores it).
Bias == {0, 1}

(***************************************************************************)
(* std::map<V, B>                                                          *)
(***************************************************************************)
EmptyMap == [k \in {} |-> 0]

\* m[k] = b
MapPut(m, k, b) == [x \in (DOMAIN m) \cup {k} |-> IF x = k THEN b ELSE m[x]]

\* m.erase(k)
MapErase(m, k) == [x \in (DOMAIN m) \ {k} |-> m[x]]

\* value-initialised element that vector::resize appends
NewElement == [first |-> EmptyMap, second |-> 0]

\* adj[u].first[v] = b
WriteEntry(a, u, v, b) == [a EXCEPT ![u + 1].first = MapPut(@, v, b)]

\* adj[u].first.erase(v)
EraseEntry(a, u, v) == [a EXCEPT ![u + 1].first = MapErase(@, v)]

(***************************************************************************)
(* Queries                                                                 *)
(***************************************************************************)
num_variables(a) == Len(a)

InRange(a, v) == v >= 0 /\ v < Len(a)

Variables(a) == 0 .. (Len(a) - 1)

degree(a, v) == Cardinality(DOMAIN a[v + 1].first)

get_linear(a, v) == a[v + 1].second

\* the bias read as adj[u].first[v]: operator[] inserts a missing key with
\* bias 0 before the lookup
get_quadratic_subscript(a, u, v) ==
    IF v \in DOMAIN a[u + 1].first
    THEN [adj |-> a, ret |-> <<a[u + 1].first[v], TRUE>>]
    ELSE [adj |-> WriteEntry(a, u, v, 0), ret |-> <<0, FALSE>>]

\* find(v) on adj[u].first; the store is handed back untouched
get_quadratic(a, u, v) ==
    [adj |-> a,
     ret |-> IF v \in DOMAIN a[u + 1].first
             THEN <<a[u + 1].first[v], TRUE>>
             ELSE <<0, FALSE>>]

\* the (neighbour, bias) pairs between begin() and end() of adj[u].first
neighborhood(a, u) == {<<k, a[u + 1].first[k]>> : k \in DOMAIN a[u + 1].first}

RECURSIVE CountFrom(_, _)
\* the loop of num_interactions from position i to the end of adj
CountFrom(a, i) ==
    IF i > Len(a) THEN 0
    ELSE Cardinality(DOMAIN a[i].first) + CountFrom(a, i + 1)

num_interactions(a) == CountFrom(a, 1) \div 2

(***************************************************************************)
(* Mutators: each yields the store after the call and the value returned   *)
(***************************************************************************)
\* returns adj.size() instead of adj.size()-1
add_variable_postsize(a) ==
    LET grown == Append(a, NewElement)
    IN  [adj |-> grown, ret |-> Len(grown)]

add_variable(a) ==
    LET grown == Append(a, NewElement)
    IN  [adj |-> grown, ret |-> Len(grown) - 1]

RECURSIVE PurgeFrom(_, _, _)
\* the loop of pop_variable: erase v from the map of every key left in keys
PurgeFrom(a, keys, v) ==
    IF keys = {} THEN a
    ELSE LET k == CHOOSE x \in keys : \A y \in keys : x <= y
         IN  PurgeFrom(EraseEntry(a, k, v), keys \ {k}, v)

\* pop_back() without the loop that purges v from its neighbours
pop_variable_nopurge(a) ==
    LET popped == SubSeq(a, 1, Len(a) - 1)
    IN  [adj |-> popped, ret |-> Len(popped)]

\* the loop left after its first pass: v is erased from the map of its
\* smallest neighbour only
pop_variable_purgefirst(a) ==
    LET v == Len(a) - 1
        keys == DOMAIN a[v + 1].first
        first == IF keys = {} THEN {} ELSE {CHOOSE x \in keys : \A y \in keys : x <= y}
        purged == PurgeFrom(a, first, v)
        popped == SubSeq(purged, 1, Len(purged) - 1)
    IN  [adj |-> popped, ret |-> Len(popped)]

\* the size read before pop_back() is returned
pop_variable_presize(a) ==
    LET v == Len(a) - 1
        purged == PurgeFrom(a, DOMAIN a[v + 1].first, v)
        popped == SubSeq(purged, 1, Len(purged) - 1)
    IN  [adj |-> popped, ret |-> Len(a)]

pop_variable(a) ==
    LET v == Len(a) - 1
        purged == PurgeFrom(a, DOMAIN a[v + 1].first, v)
        popped == SubSeq(purged, 1, Len(purged) - 1)
    IN  [adj |-> popped, ret |-> Len(popped)]

\* the second erase, adj[v].first.erase(u), left out
remove_interaction_oneside(a, u, v) ==
    IF v \in DOMAIN a[u + 1].first
    THEN [adj |-> EraseEntry(a, u, v), ret |-> TRUE]
    ELSE [adj |-> a, ret |-> FALSE]

\* the first erase written adj[u].first.erase(u)
remove_interaction_typo(a, u, v) ==
    IF u \in DOMAIN a[u + 1].first
    THEN [adj |-> EraseEntry(EraseEntry(a, u, u), v, u), ret |-> TRUE]
    ELSE [adj |-> a, ret |-> FALSE]

\* the result of erase not tested: both erases run and true is returned
remove_interaction_alwaystrue(a, u, v) ==
    [adj |-> EraseEntry(EraseEntry(a, u, v), v, u), ret |-> TRUE]

remove_interaction(a, u, v) ==
    IF v \in DOMAIN a[u + 1].first
    THEN [adj |-> EraseEntry(EraseEntry(a, u, v), v, u), ret |-> TRUE]
    ELSE [adj |-> a, ret |-> FALSE]

\* the whole element assigned, adj[v] = {{}, b}: the neighbor map is emptied
set_linear_reset(a, v, b) ==
    [adj |-> [a EXCEPT ![v + 1] = [first |-> EmptyMap, second |-> b]]]

set_linear(a, v, b) ==
    [adj |-> [a EXCEPT ![v + 1].second = b]]

\* the second write, adj[v].first[u] = b, left out
set_quadratic_oneway(a, u, v, b) ==
    [adj |-> WriteEntry(a, u, v, b), ret |-> TRUE]

\* the second write written adj[v].first[v] = b
set_quadratic_selfkey(a, u, v, b) ==
    [adj |-> WriteEntry(WriteEntry(a, u, v, b), v, v, b), ret |-> TRUE]

\* first.insert({v, b}) in place of first[v] = b: a present key keeps its bias
set_quadratic_insert(a, u, v, b) ==
    LET Ins(s, x, y) == IF y \in DOMAIN s[x + 1].first THEN s ELSE WriteEntry(s, x, y, b)
    IN  [adj |-> Ins(Ins(a, u, v), v, u), ret |-> TRUE]

\* the writes made by assigning a fresh one-entry map: adj[u].first = {{v, b}}
set_quadratic_clobber(a, u, v, b) ==
    [adj |-> [a EXCEPT ![u + 1].first = MapPut(EmptyMap, v, b),
                       ![v + 1].first = MapPut(EmptyMap, u, b)],
     ret |-> TRUE]

set_quadratic(a, u, v, b) ==
    [adj |-> WriteEntry(WriteEntry(a, u, v, b), v, u, b), ret |-> TRUE]

(***************************************************************************)
(* The store driven through its interface by a caller that keeps every     *)
(* precondition of the interface.                                          *)
(***************************************************************************)
\* `last` is a record: op names the call, ok says that the call kept its
\* preconditions, the other fields are the call's arguments (u, v, b) and
\* the value it returned (ret; bias and found for get_quadratic).

\* add_variable directly after a pop_variable that removed a variable with a
\* non-zero linear bias and at least one interaction
FollowsPop ==
    /\ last.op = "pop_variable"
    /\ pre[Len(pre)].second /= 0
    /\ DOMAIN pre[Len(pre)].first /= {}

\* remove_interaction(u, v) directly after a remove_interaction(u, v) that
\* returned true
FollowsRemove(u, v) ==
    /\ last.op = "remove_interaction"
    /\ last.u = u
    /\ last.v = v
    /\ last.ret

NoSource == [n |-> 0, linear |-> <<>>, nbrs |-> <<>>]

\* AdjMapBQM() {}
Init ==
    /\ adj = <<>>
    /\ pre = <<>>
    /\ last = [op |-> "AdjMapBQM", ok |-> TRUE]
    /\ src = NoSource

\* a call that leaves the store res.adj, recorded as `call`
Step(res, call) ==
    /\ adj' = res.adj
    /\ pre' = adj
    /\ last' = call
    /\ UNCHANGED src

AddVariable ==
    /\ last.ok
    /\ Len(adj) < MaxVars
    /\ LET res == add_variable(adj)
       IN  Step(res, [op |-> "add_variable", ok |-> TRUE, ret |-> res.ret,
                      follows |-> FollowsPop])

PopVariable ==
    /\ last.ok
    /\ Len(adj) > 0
    /\ LET res == pop_variable(adj)
       IN  Step(res, [op |-> "pop_variable", ok |-> TRUE, ret |-> res.ret])

SetLinear ==
    /\ last.ok
    /\ \E v \in Variables(adj), b \in Bias :
          Step(set_linear(adj, v, b), [op |-> "set_linear", ok |-> TRUE, v |-> v, b |-> b])

SetQuadratic ==
    /\ last.ok
    /\ \E u \in Variables(adj), v \in Variables(adj), b \in Bias :
          /\ u /= v
          /\ (v \in DOMAIN adj[u + 1].first \/ num_interactions(adj) < MaxInteractions)
          /\ LET res == set_quadratic(adj, u, v, b)
             IN  Step(res, [op |-> "set_quadratic", ok |-> TRUE, u |-> u, v |-> v,
                            b |-> b, ret |-> res.ret])

RemoveInteraction ==
    /\ last.ok
    /\ \E u \in Variables(adj), v \in Variables(adj) :
          LET res == remove_interaction(adj, u, v)
          IN  Step(res, [op |-> "remove_interaction", ok |-> TRUE, u |-> u, v |-> v,
                         ret |-> res.ret, follows |-> FollowsRemove(u, v)])

GetQuadratic ==
    /\ last.ok
    /\ \E u \in Variables(adj), v \in Variables(adj) :
          /\ u /= v
          /\ LET res == get_quadratic(adj, u, v)
             IN  Step(res, [op |-> "get_quadratic", ok |-> TRUE, u |-> u, v |-> v,
                            bias |-> res.ret[1], found |-> res.ret[2]])

\* the four queries below have bodies that only read adj
Degree ==
    /\ last.ok
    /\ \E v \in Variables(adj) :
          Step([adj |-> adj], [op |-> "degree", ok |-> TRUE, v |-> v, ret |-> degree(adj, v)])

GetLinear ==
    /\ last.ok
    /\ \E v \in Variables(adj) :
          Step([adj |-> adj], [op |-> "get_linear", ok |-> TRUE, v |-> v,
                               ret |-> get_linear(adj, v)])

NumVariables ==
    /\ last.ok
    /\ Step([adj |-> adj], [op |-> "num_variables", ok |-> TRUE, ret |-> num_variables(adj)])

NumInteractions ==
    /\ last.ok
    /\ Step([adj |-> adj], [op |-> "num_interactions", ok |-> TRUE,
                            ret |-> num_interactions(adj)])

Next ==
    \/ AddVariable
    \/ PopVariable
    \/ SetLinear
    \/ SetQuadratic
    \/ RemoveInteraction
    \/ GetQuadratic
    \/ Degree
    \/ GetLinear
    \/ NumVariables
    \/ NumInteractions

Spec == Init /\ [][Next]_vars

(***************************************************************************)
(* The converting constructor, template<class BQM> AdjMapBQM(const BQM&).  *)
(* A source is what the constructor reads of it: num_variables(),          *)
(* get_linear(v) and neighborhood(v), the latter as the map it iterates.   *)
(* Sources are arbitrary: asymmetric ones and self-loops included.         *)
(***************************************************************************)
\* all std::map<V, B> values with keys among the variables 0 .. n-1
MapsOver(n) == UNION {[K -> Bias] : K \in SUBSET (0 .. (n - 1))}

Sources ==
    UNION {[n : {n}, linear : [1 .. n -> Bias], nbrs : [1 .. n -> MapsOver(n)]] :
              n \in 0 .. MaxSrcVars}

RECURSIVE SpanOf(_, _)
\* the iterator range [span.first, span.second) over the keys of m that are
\* at least `from`: the (neighbour, bias) pairs in ascending key order
SpanOf(m, from) ==
    LET keys == {k \in DOMAIN m : k >= from}
    IN  IF keys = {} THEN <<>>
        ELSE LET k == CHOOSE x \in keys : \A y \in keys : x <= y
             IN  <<(<<k, m[k]>>)>> \o SpanOf(m, k + 1)

RECURSIVE InsertRange(_, _)
\* std::map::insert(first, last): a pair whose key is present is skipped
InsertRange(m, span) ==
    IF span = <<>> THEN m
    ELSE LET kv == Head(span)
         IN  InsertRange(IF kv[1] \in DOMAIN m THEN m ELSE MapPut(m, kv[1], kv[2]),
                         Tail(span))

\* adj.resize(n) on the empty vector
Resized(n) == [i \in 1 .. n |-> NewElement]

RECURSIVE CopyFrom(_, _, _)
\* the constructor's loop from variable v on
CopyFrom(a, bqm, v) ==
    IF ~(v < bqm.n) THEN a
    ELSE LET lin == set_linear(a, v, bqm.linear[v + 1]).adj
             span == SpanOf(bqm.nbrs[v + 1], 0)
             ins == [lin EXCEPT ![v + 1].first = InsertRange(@, span)]
         IN  CopyFrom(ins, bqm, v + 1)

\* the loop bound written v + 1 < bqm.num_variables()
FromBQM_offbyone(bqm) ==
    CopyFrom(Resized(bqm.n), [bqm EXCEPT !.n = IF @ > 0 THEN @ - 1 ELSE 0], 0)

\* every copied pair written through set_quadratic, to both of its ends
FromBQM_symmetrize(bqm) ==
    [i \in 1 .. bqm.n |->
        [first |-> [k \in {x \in 0 .. (bqm.n - 1) :
                              x \in DOMAIN bqm.nbrs[i] \/ (i - 1) \in DOMAIN bqm.nbrs[x + 1]} |->
                       IF k \in DOMAIN bqm.nbrs[i] THEN bqm.nbrs[i][k]
                       ELSE bqm.nbrs[k + 1][i - 1]],
         second |-> bqm.linear[i]]]

FromBQM(bqm) == CopyFrom(Resized(bqm.n), bqm, 0)

InitConv ==
    /\ src \in Sources
    /\ adj = <<>>
    /\ pre = <<>>
    /\ last = [op |-> "source", ok |-> TRUE]

Construct ==
    /\ last.op = "source"
    /\ adj' = FromBQM(src)
    /\ pre' = adj
    /\ last' = [op |-> "AdjMapBQM(bqm)", ok |-> TRUE]
    /\ UNCHANGED src

NextConv == Construct

SpecConv == InitConv /\ [][NextConv]_vars

(***************************************************************************)
(* Calls that break a precondition.  The preconditions are assert()s:      *)
(*   get_quadratic, set_quadratic   u, v < adj.size() and u != v           *)
(*   remove_interaction             u, v < adj.size()                      *)
(*   pop_variable                   adj.size() > 0                         *)
(*   set_linear, neighborhood       v < invars.size(); AdjMapBQM has no    *)
(*                                  member invars, so these two compile    *)
(*                                  only with assertions off (NDEBUG)      *)
(*   degree, get_linear             none                                   *)
(* and remove_interaction asserts no u != v.                               *)
(* A build with assertions on aborts at a failed assert, before the body.  *)
(* A build with NDEBUG runs the body: map operations on adj[u] for u in    *)
(* range are defined whatever the key, and adj[u] for u out of range is an *)
(* out-of-bounds access, undefined behaviour.  The history record of such  *)
(* a call has ok = FALSE and the model observes the store right after it.  *)
(***************************************************************************)
\* argument values: the variables and indices past the end of adj
Indices == 0 .. MaxVars

\* After an out-of-bounds access through adj[u]: the store as it was, or with
\* the bias of one map node overwritten (the map nodes share the heap with
\* the vector's buffer).
OutOfBounds(a) ==
    {a} \cup UNION {{[a EXCEPT ![w + 1].first[k] = b] : k \in DOMAIN a[w + 1].first, b \in Bias} :
                       w \in Variables(a)}

\* set_quadratic without its assertions: the stores the body can leave
Unchecked_set_quadratic(a, u, v, b) ==
    IF ~InRange(a, u) THEN OutOfBounds(a)
    ELSE IF ~InRange(a, v) THEN OutOfBounds(WriteEntry(a, u, v, b))
    ELSE {set_quadratic(a, u, v, b).adj}

\* remove_interaction without its assertions
Unchecked_remove_interaction(a, u, v) ==
    IF ~InRange(a, u) THEN OutOfBounds(a)
    ELSE IF v \in DOMAIN a[u + 1].first THEN OutOfBounds(EraseEntry(a, u, v))
    ELSE {a}

\* set_linear, whose assertion never compiles
Unchecked_set_linear(a, v, b) == OutOfBounds(a)

\* pop_variable on the empty vector: adj[size_t(-1)] and pop_back()
Unchecked_pop_variable(a) == OutOfBounds(a)

\* A call that breaks its precondition, recorded as `call`, in either build:
\* the failed assert aborts before the body (outcome "abort", the store as
\* it was), or NDEBUG runs the body, which leaves one of the stores in `ran`.
\* The record also names the build.  `asserted` is false for an assertion
\* that names invars: no build with assertions on compiles that method.
Violates(call, asserted, ran) ==
    /\ pre' = adj
    /\ UNCHANGED src
    /\ \/ /\ asserted
          /\ adj' = adj
          /\ last' = [outcome |-> "abort", build |-> "assert"] @@ call
       \/ /\ adj' \in ran
          /\ last' = [outcome |-> "ran", build |-> "ndebug"] @@ call

\* A call with an index out of range to a method that asserts nothing: both
\* builds run the body, which reads adj[v] out of bounds.
Unasserted(call, ran) ==
    /\ pre' = adj
    /\ UNCHANGED src
    /\ adj' \in ran
    /\ \E build \in {"assert", "ndebug"} :
          last' = [outcome |-> "ran", build |-> build] @@ call

BadSetQuadratic ==
    /\ last.ok
    /\ \E u \in Indices, v \in Indices, b \in Bias :
          /\ ~(InRange(adj, u) /\ InRange(adj, v) /\ u /= v)
          /\ Violates([op |-> "set_quadratic", ok |-> FALSE, u |-> u, v |-> v, b |-> b,
                       check |-> "adj.size()"],
                      TRUE, Unchecked_set_quadratic(adj, u, v, b))

BadGetQuadratic ==
    /\ last.ok
    /\ \E u \in Indices, v \in Indices :
          /\ ~(InRange(adj, u) /\ InRange(adj, v) /\ u /= v)
          /\ Violates([op |-> "get_quadratic", ok |-> FALSE, u |-> u, v |-> v,
                       check |-> "adj.size()"],
                      TRUE, {adj})

BadRemoveInteraction ==
    /\ last.ok
    /\ \E u \in Indices, v \in Indices :
          /\ ~(InRange(adj, u) /\ InRange(adj, v))
          /\ Violates([op |-> "remove_interaction", ok |-> FALSE, u |-> u, v |-> v,
                       check |-> "adj.size()"],
                      TRUE, Unchecked_remove_interaction(adj, u, v))

BadSetLinear ==
    /\ last.ok
    /\ \E v \in Indices, b \in Bias :
          /\ ~InRange(adj, v)
          /\ Violates([op |-> "set_linear", ok |-> FALSE, v |-> v, b |-> b,
                       check |-> "invars.size()"],
                      FALSE, Unchecked_set_linear(adj, v, b))

BadPopVariable ==
    /\ last.ok
    /\ Len(adj) = 0
    /\ Violates([op |-> "pop_variable", ok |-> FALSE, check |-> "adj.size()"],
                TRUE, Unchecked_pop_variable(adj))

\* neighborhood(u): its assertion names invars; begin() and end() of a map
\* read out of bounds, nothing written
BadNeighborhood ==
    /\ last.ok
    /\ \E u \in Indices :
          /\ ~InRange(adj, u)
          /\ Violates([op |-> "neighborhood", ok |-> FALSE, u |-> u,
                       check |-> "invars.size()"],
                      FALSE, {adj})

\* degree(v): no assertion
BadDegree ==
    /\ last.ok
    /\ \E v \in Indices :
          /\ ~InRange(adj, v)
          /\ Unasserted([op |-> "degree", ok |-> FALSE, v |-> v, check |-> "none"], {adj})

\* get_linear(v): no assertion
BadGetLinear ==
    /\ last.ok
    /\ \E v \in Indices :
          /\ ~InRange(adj, v)
          /\ Unasserted([op |-> "get_linear", ok |-> FALSE, v |-> v, check |-> "none"], {adj})

NextUnchecked ==
    \/ Next
    \/ BadSetQuadratic
    \/ BadGetQuadratic
    \/ BadRemoveInteraction
    \/ BadSetLinear
    \/ BadPopVariable
    \/ BadNeighborhood
    \/ BadDegree
    \/ BadGetLinear

SpecUnchecked == Init /\ [][NextUnchecked]_vars

(***************************************************************************)
(* Properties of the store                                                 *)
(***************************************************************************)
\* what get_quadratic(u, v) returns on store a
Quadratic(a, u, v) == get_quadratic(a, u, v).ret

\* a bias is recorded for (u, v) in u's map
Recorded(a, u, v) == Quadratic(a, u, v)[2]

\* the unordered pairs of distinct variables with a bias recorded on either side
RecordedPairs(a) ==
    {p \in SUBSET Variables(a) :
        /\ Cardinality(p) = 2
        /\ \E u \in p, v \in p : u /= v /\ Recorded(a, u, v)}

RECURSIVE SumDegrees(_, _)
\* degree(0) + ... + degree(n - 1)
SumDegrees(a, n) == IF n = 0 THEN 0 ELSE degree(a, n - 1) + SumDegrees(a, n - 1)

\* C1 - Symmetry invariant: in every state reached by calls that keep their
\* preconditions, get_quadratic(u, v) and get_quadratic(v, u) return the same
\* found-flag and the same bias for all distinct variables u, v.
C1_Symmetry ==
    \A u \in Variables(adj), v \in Variables(adj) :
        u /= v => Quadratic(adj, u, v) = Quadratic(adj, v, u)

\* C1 witness: an interaction was removed and another, with a non-zero bias,
\* is still recorded.
C1_Witness ==
    /\ last.op = "remove_interaction"
    /\ last.ret = TRUE
    /\ \E u \in Variables(adj), v \in Variables(adj) :
          u /= v /\ Quadratic(adj, u, v) = <<1, TRUE>>

\* C2 - No self-loops: in every reachable state no variable u is a key of its
\* own neighbour map.
C2_NoSelfLoops ==
    \A u \in Variables(adj) : u \notin DOMAIN adj[u + 1].first

\* C2 witness: set_quadratic has just written a pair and both ends have
\* neighbours.
C2_Witness ==
    /\ last.op = "set_quadratic"
    /\ degree(adj, last.u) > 0
    /\ degree(adj, last.v) > 0

\* C3 - Degree/interaction-count consistency: the sum of the degrees is twice
\* num_interactions() (so it is even), and num_interactions() is the number
\* of unordered pairs with a recorded quadratic bias.
C3_InteractionCount ==
    /\ SumDegrees(adj, Len(adj)) = 2 * num_interactions(adj)
    /\ num_interactions(adj) = Cardinality(RecordedPairs(adj))

\* C3 witness: the scenario of the specification, three variables with the
\* interactions (0, 1) and (1, 2): two interactions, degree(1) = 2.
C3_Witness ==
    /\ Len(adj) = 3
    /\ num_interactions(adj) = 2
    /\ degree(adj, 1) = 2
    /\ ~Recorded(adj, 0, 2)

\* C4 - Set/get round-trip: directly after set_quadratic(u, v, b), both
\* get_quadratic(u, v) and get_quadratic(v, u) return (b, true), whether the
\* pair was absent or present with another bias before.
C4_SetGetRoundTrip ==
    last.op = "set_quadratic" =>
        /\ Quadratic(adj, last.u, last.v) = <<last.b, TRUE>>
        /\ Quadratic(adj, last.v, last.u) = <<last.b, TRUE>>

\* C4 witness: set_quadratic overwrote a pair that was recorded with another
\* bias.
C4_Witness ==
    /\ last.op = "set_quadratic"
    /\ Recorded(pre, last.u, last.v)
    /\ Quadratic(pre, last.u, last.v)[1] /= last.b
    /\ Quadratic(adj, last.u, last.v) = <<last.b, TRUE>>

\* C5 - Remove round-trip: remove_interaction(u, v) on a pair recorded by an
\* earlier set_quadratic returns true and leaves get_quadratic(u, v) and
\* get_quadratic(v, u) at (0, false); a remove_interaction(u, v) directly
\* after it returns false.
C5_RemoveRoundTrip ==
    (last.op = "remove_interaction" /\ last.u /= last.v) =>
        /\ Recorded(pre, last.u, last.v) =>
              /\ last.ret = TRUE
              /\ Quadratic(adj, last.u, last.v) = <<0, FALSE>>
              /\ Quadratic(adj, last.v, last.u) = <<0, FALSE>>
        /\ last.follows => last.ret = FALSE

\* C5 witness: the second of two remove_interaction(u, v) calls in a row, the
\* first of which removed the pair.
C5_Witness ==
    /\ last.op = "remove_interaction"
    /\ last.u /= last.v
    /\ last.follows
    /\ last.ret = FALSE

\* C6 - Pop cleans neighbours: pop_variable() removes variable n-1; afterwards
\* no remaining variable has n-1 as a key, each former neighbour's degree is
\* one less and every other degree the same, and every interaction between
\* remaining variables and every remaining linear bias is unchanged.
C6_PopCleansNeighbors ==
    last.op = "pop_variable" =>
        LET n == Len(pre)
            nbrs == DOMAIN pre[n].first
        IN  /\ Len(adj) = n - 1
            /\ \A w \in Variables(adj) :
                  /\ (n - 1) \notin DOMAIN adj[w + 1].first
                  /\ degree(adj, w) = degree(pre, w) - (IF w \in nbrs THEN 1 ELSE 0)
                  /\ get_linear(adj, w) = get_linear(pre, w)
                  /\ \A x \in Variables(adj) :
                        x /= w => Quadratic(adj, w, x) = Quadratic(pre, w, x)

\* C6 witness: the scenario of the specification: variables 0, 1, 2 with the
\* interactions (0, 2) and (1, 2); after the pop two variables of degree 0.
C6_Witness ==
    /\ last.op = "pop_variable"
    /\ Len(pre) = 3
    /\ DOMAIN pre[3].first = {0, 1}
    /\ Len(adj) = 2
    /\ degree(adj, 0) = 0
    /\ degree(adj, 1) = 0

\* C8 - add_variable() returns the old num_variables, grows the store by one
\* variable of degree 0 and linear bias 0 (also when the index was held by a
\* popped variable with a non-zero linear bias and interactions), and leaves
\* every existing variable's linear bias and neighbour map unchanged.
C8_AddVariable ==
    last.op = "add_variable" =>
        /\ last.ret = Len(pre)
        /\ Len(adj) = Len(pre) + 1
        /\ degree(adj, Len(pre)) = 0
        /\ get_linear(adj, Len(pre)) = 0
        /\ \A w \in Variables(pre) : adj[w + 1] = pre[w + 1]

\* C8 witness: add_variable directly after the pop of a variable that had a
\* non-zero linear bias and interactions, next to a variable that keeps its
\* non-zero linear bias.
C8_Witness ==
    /\ last.op = "add_variable"
    /\ last.follows
    /\ last.ret = Len(adj) - 1
    /\ \E w \in Variables(pre) : get_linear(adj, w) /= 0

\* C9 - remove_interaction(u, v) returns true exactly when the pair was
\* recorded before the call, and then both entries are erased; it returns
\* false exactly when it was not, and then the store is unchanged.  Every
\* other interaction, every linear bias and num_variables stay as they were.
C9_RemoveInteraction ==
    last.op = "remove_interaction" =>
        LET u == last.u
            v == last.v
        IN  /\ last.ret = Recorded(pre, u, v)
            /\ last.ret = TRUE =>
                  /\ v \notin DOMAIN adj[u + 1].first
                  /\ u \notin DOMAIN adj[v + 1].first
            /\ last.ret = FALSE => adj = pre
            /\ Len(adj) = Len(pre)
            /\ \A w \in Variables(adj) :
                  /\ get_linear(adj, w) = get_linear(pre, w)
                  /\ \A x \in Variables(adj) :
                        {w, x} /= {u, v} =>
                            (x \in DOMAIN adj[w + 1].first) = (x \in DOMAIN pre[w + 1].first)
                            /\ (x \in DOMAIN pre[w + 1].first =>
                                   adj[w + 1].first[x] = pre[w + 1].first[x])

\* C9 witness: a removal that returned true on a store that keeps another
\* interaction and a non-zero linear bias.
C9_Witness ==
    /\ last.op = "remove_interaction"
    /\ last.ret = TRUE
    /\ num_interactions(adj) > 0
    /\ \E w \in Variables(adj) : get_linear(adj, w) /= 0

\* a source that keeps the contract of a BQM: symmetric and free of self-loops
WellFormed(bqm) ==
    \A u \in 0 .. (bqm.n - 1) :
        /\ u \notin DOMAIN bqm.nbrs[u + 1]
        /\ \A v \in DOMAIN bqm.nbrs[u + 1] :
              /\ v \in 0 .. (bqm.n - 1)
              /\ u \in DOMAIN bqm.nbrs[v + 1]
              /\ bqm.nbrs[v + 1][u] = bqm.nbrs[u + 1][v]

\* C10 - Conversion without loss: the store constructed from a well-formed
\* source has the source's num_variables, its linear bias for every variable
\* and its (neighbour, bias) pairs for every variable, and is symmetric and
\* free of self-loops.
C10_ConversionWithoutLoss ==
    (last.op = "AdjMapBQM(bqm)" /\ WellFormed(src)) =>
        /\ num_variables(adj) = src.n
        /\ \A v \in Variables(adj) :
              /\ get_linear(adj, v) = src.linear[v + 1]
              /\ neighborhood(adj, v) =
                     {<<k, src.nbrs[v + 1][k]>> : k \in DOMAIN src.nbrs[v + 1]}
              /\ v \notin DOMAIN adj[v + 1].first
              /\ \A u \in Variables(adj) :
                     u /= v => Quadratic(adj, u, v) = Quadratic(adj, v, u)

\* C10 witness: a store constructed from a well-formed source of two
\* variables with an interaction of bias 1 and different linear biases.
C10_Witness ==
    /\ last.op = "AdjMapBQM(bqm)"
    /\ WellFormed(src)
    /\ src.n = 2
    /\ src.linear = <<0, 1>>
    /\ Quadratic(adj, 0, 1) = <<1, TRUE>>
    /\ get_linear(adj, 1) = 1

\* C7 - A call with a violated precondition (set_quadratic or get_quadratic
\* with u = v or an index out of range, set_linear or remove_interaction with
\* an index out of range, pop_variable on the empty store) does not execute
\* and leaves the store as it was: num_variables, every linear bias and every
\* neighbour map, with never one direction of a pair written without the
\* other.
C7_ViolationLeavesStore ==
    ~last.ok => adj = pre

\* a source with asymmetric neighbour data: v is listed for u, and u is not
\* listed for v or is listed with another bias
Asymmetric(bqm) ==
    \E u \in 0 .. (bqm.n - 1) :
        \E v \in DOMAIN bqm.nbrs[u + 1] :
            /\ v /= u
            /\ \/ u \notin DOMAIN bqm.nbrs[v + 1]
               \/ bqm.nbrs[v + 1][u] /= bqm.nbrs[u + 1][v]

\* C11 as claimed - constructing a store from a source with asymmetric
\* neighbour data fails: no store is ever constructed from such a source.
C11_MalformedSourceFails ==
    ~(last.op = "AdjMapBQM(bqm)" /\ Asymmetric(src))

\* C11 as amended - constructing a store from a source with asymmetric
\* neighbour data does not fail: the constructor copies the source as it is
\* (its num_variables, linear biases and every variable's (neighbour, bias)
\* pairs), so the store it produces breaks the symmetry invariant.
C11_MalformedSourceCopied ==
    (last.op = "AdjMapBQM(bqm)" /\ Asymmetric(src)) =>
        /\ num_variables(adj) = src.n
        /\ \A v \in Variables(adj) :
              /\ get_linear(adj, v) = src.linear[v + 1]
              /\ neighborhood(adj, v) =
                     {<<k, src.nbrs[v + 1][k]>> : k \in DOMAIN src.nbrs[v + 1]}
        /\ \E u \in Variables(adj), v \in Variables(adj) :
              u /= v /\ Quadratic(adj, u, v) /= Quadratic(adj, v, u)

\* C11 witness: a store constructed from a source in which 1 is listed for
\* variable 0 and 0 is not listed for variable 1.
C11_Witness ==
    /\ last.op = "AdjMapBQM(bqm)"
    /\ src.n = 2
    /\ DOMAIN src.nbrs[1] = {1}
    /\ DOMAIN src.nbrs[2] = {}
    /\ Recorded(adj, 0, 1)
    /\ ~Recorded(adj, 1, 0)

\* C12 - pop_variable() on a store of n > 0 variables returns n - 1, the
\* number of variables left, num_variables() equals that value afterwards,
\* and the variables left are the variables 0 .. n-2 of before, each under
\* its old index.
C12_PopReturnsCount ==
    last.op = "pop_variable" =>
        /\ last.ret = Len(pre) - 1
        /\ num_variables(adj) = last.ret
        /\ Variables(adj) = 0 .. (Len(pre) - 2)
        /\ \A w \in Variables(adj) : get_linear(adj, w) = get_linear(pre, w)

\* C12 witness: a pop from three variables with linear biases 0, 1, 1 that
\* returns 2 and leaves the biases 0, 1 at the indices 0, 1.
C12_Witness ==
    /\ last.op = "pop_variable"
    /\ Len(pre) = 3
    /\ last.ret = 2
    /\ num_variables(adj) = 2
    /\ get_linear(pre, 2) = 1
    /\ get_linear(adj, 0) = 0
    /\ get_linear(adj, 1) = 1

\* C13 - One uniform policy for precondition violations: every call with an
\* index out of [0, num_variables) is checked against the store's variable
\* count, adj.size(), and stopped by that check in every build that has the
\* checks on; and every pairwise call with u = v, remove_interaction
\* included, counts as a violation.
C13_UniformPolicy ==
    /\ ~last.ok =>
          /\ last.check = "adj.size()"
          /\ last.build = "assert" => last.outcome = "abort"
    /\ last.op = "remove_interaction" => (last.u = last.v => ~last.ok)

\* C14 - set_quadratic(u, v, b) on distinct in-range u, v changes only the
\* pair {u, v}.  If the pair was absent num_interactions and the degrees of
\* u and v each grow by exactly 1, if it was present num_interactions and
\* every degree stay.  Either way every other pair answers get_quadratic as
\* before, and every linear bias and num_variables are unchanged.
C14_SetQuadraticFrame ==
    last.op = "set_quadratic" =>
        LET u == last.u
            v == last.v
            new == IF Recorded(pre, u, v) THEN 0 ELSE 1
        IN  /\ num_interactions(adj) = num_interactions(pre) + new
            /\ degree(adj, u) = degree(pre, u) + new
            /\ degree(adj, v) = degree(pre, v) + new
            /\ \A w \in Variables(pre) \ {u, v} : degree(adj, w) = degree(pre, w)
            /\ \A x \in Variables(pre), y \in Variables(pre) :
                  (x /= y /\ {x, y} /= {u, v}) => Quadratic(adj, x, y) = Quadratic(pre, x, y)
            /\ num_variables(adj) = num_variables(pre)
            /\ \A w \in Variables(pre) : get_linear(adj, w) = get_linear(pre, w)

\* add_variable() three times, set_linear(0, 1), set_quadratic(0, 1, b), then
\* set_quadratic(1, 2, b) on the absent pair: two interactions, degree(1) = 2
\* and get_quadratic(0, 2) still (0, false)
C14_Witness ==
    /\ last.op = "set_quadratic"
    /\ last.u = 1
    /\ last.v = 2
    /\ num_variables(adj) = 3
    /\ get_linear(adj, 0) = 1
    /\ Recorded(pre, 0, 1)
    /\ ~Recorded(pre, 1, 2)
    /\ num_interactions(pre) = 1
    /\ num_interactions(adj) = 2
    /\ degree(pre, 1) = 1
    /\ degree(adj, 1) = 2
    /\ Quadratic(adj, 0, 2) = <<0, FALSE>>

\* C15 - Querying is read-only.  get_quadratic(u, v) for a pair with no
\* recorded bias returns (0, false) and creates no entry: num_interactions,
\* degree(u), degree(v) and every neighbor map are as before the call.
\* get_quadratic of a recorded pair, get_linear, degree, num_variables and
\* num_interactions leave the store as it was too.
C15_QueriesReadOnly ==
    /\ last.op \in {"get_quadratic", "get_linear", "degree", "num_variables", "num_interactions"}
          => adj = pre
    /\ (last.op = "get_quadratic" /\ ~Recorded(pre, last.u, last.v)) =>
          /\ last.bias = 0
          /\ ~last.found
          /\ num_interactions(adj) = num_interactions(pre)
          /\ degree(adj, last.u) = degree(pre, last.u)
          /\ degree(adj, last.v) = degree(pre, last.v)
          /\ \A w \in Variables(pre) : neighborhood(adj, w) = neighborhood(pre, w)
          /\ ~Recorded(adj, last.u, last.v)
          /\ ~Recorded(adj, last.v, last.u)

\* get_quadratic(0, 2) has just answered (0, false) on a store that records
\* the pairs {0, 1} and {1, 2} only
C15_Witness ==
    /\ last.op = "get_quadratic"
    /\ last.u = 0
    /\ last.v = 2
    /\ ~last.found
    /\ last.bias = 0
    /\ Recorded(adj, 0, 1)
    /\ Recorded(adj, 1, 2)
    /\ num_interactions(adj) = 2
    /\ degree(adj, 0) = 1
    /\ degree(adj, 2) = 1

\* C16 - set_linear(v, b) with v in range overwrites only v's linear bias:
\* afterwards get_linear(v) = b, and every other linear bias, every neighbor
\* map, num_interactions and num_variables are as before.  The value stays
\* through every later call other than set_linear: set_quadratic,
\* remove_interaction and the queries keep every linear bias, add_variable
\* keeps those of the variables it found, pop_variable those of the
\* variables it leaves.
C16_SetLinearFrame ==
    /\ last.op = "set_linear" =>
          /\ get_linear(adj, last.v) = last.b
          /\ \A w \in Variables(pre) \ {last.v} : get_linear(adj, w) = get_linear(pre, w)
          /\ \A w \in Variables(pre) : neighborhood(adj, w) = neighborhood(pre, w)
          /\ num_interactions(adj) = num_interactions(pre)
          /\ num_variables(adj) = num_variables(pre)
    /\ last.op \in {"set_quadratic", "remove_interaction", "add_variable", "pop_variable",
                    "get_quadratic", "get_linear", "degree", "num_variables",
                    "num_interactions"} =>
          \A w \in Variables(pre) \cap Variables(adj) : get_linear(adj, w) = get_linear(pre, w)

\* set_linear(1, 1) on a store whose variable 1 had bias 0 and two
\* interactions, and whose variable 0 has bias 1
C16_Witness ==
    /\ last.op = "set_linear"
    /\ last.v = 1
    /\ last.b = 1
    /\ get_linear(pre, 1) = 0
    /\ get_linear(adj, 1) = 1
    /\ get_linear(adj, 0) = 1
    /\ degree(adj, 1) = 2
    /\ num_interactions(adj) = 2

\* C17 - No dangling neighbors: in every state reached from the empty store
\* by calls that keep their preconditions, every key of every neighbor map
\* is a variable index in [0, num_variables).  So after pop_variable no map
\* names the removed index, and the variable a later add_variable creates
\* under that index has no interaction from its own side nor from any
\* other variable's side.
C17_NoDanglingNeighbors ==
    /\ \A w \in Variables(adj) : DOMAIN adj[w + 1].first \subseteq Variables(adj)
    /\ last.op = "pop_variable" =>
          \A w \in Variables(adj) : ~Recorded(adj, w, Len(pre) - 1)
    /\ last.op = "add_variable" =>
          \A w \in Variables(pre) :
             /\ ~Recorded(adj, w, last.ret)
             /\ ~Recorded(adj, last.ret, w)

\* variable 2, which had an interaction, was popped and add_variable has
\* just handed index 2 out again, the pair {0, 1} still recorded
C17_Witness ==
    /\ last.op = "add_variable"
    /\ last.follows
    /\ last.ret = 2
    /\ num_variables(adj) = 3
    /\ degree(adj, 2) = 0
    /\ Recorded(adj, 0, 1)
    /\ num_interactions(adj) = 1

====
